---- MODULE Spec2Model ----
(***************************************************************************)
(* Tennis ATP API (src/app.py): the loader load_data, which fills the four *)
(* module globals dim_players, dim_tournaments, fact_matches and fact_plus *)
(* from the pipeline output on disk, and the query handlers that read      *)
(* them.                                                                   *)
(*                                                                         *)
(* Text is a sequence of one-character strings, so that substring search,  *)
(* case folding and slicing are computed, not assumed.  A data frame is a  *)
(* record [def, by, cols, rows]: def is FALSE while the global name is not *)
(* bound yet, by is the load_data invocation that assigned it (history     *)
(* only), cols its column names and rows its rows in order.                *)
(*                                                                         *)
(* load_data is modelled statement by statement (one action per statement  *)
(* or loop iteration); player_stats in two steps (the read of dim_players, *)
(* then the reads of fact_plus); the other handlers are one action each.   *)
(***************************************************************************)
EXTENDS Integers, Sequences, FiniteSets, TLC

VARIABLES
    disk,             \* the pipeline_output directory
    dim_players,      \* global dim_players
    dim_tournaments,  \* global dim_tournaments
    fact_matches,     \* global fact_matches
    fact_plus,        \* global fact_plus
    ld,               \* load_data invocations: program counter and locals
    started,          \* number of load_data invocations started so far
    serving,          \* TRUE once app.run serves requests
    qs,               \* the request being handled by player_stats, if any
    resp,             \* the last response produced by a handler
    nreq              \* number of requests answered so far

vars == <<disk, dim_players, dim_tournaments, fact_matches, fact_plus,
          ld, started, serving, qs, resp, nreq>>

globals == <<dim_players, dim_tournaments, fact_matches, fact_plus>>

----------------------------------------------------------------------------
(* Bounds of the model. *)

MaxLoads == 3        \* load_data invocations (the first one is main's)
MaxRequests == 1     \* requests answered in one behaviour
MaxLimit == 2        \* largest |limit| given to list_players

Loads == 1..MaxLoads

----------------------------------------------------------------------------
(* Text. *)

\* A missing value of a text column after a left join (pandas NaN).
NaN == <<"NaN">>

\* A missing value of a one-word column (Surface, Series, Round, Score).
NaNStr == "NaN"

\* A missing value of a numeric column after a left join.
NaNId == 0

\* str.lower() on one character of the model's alphabet.
Lower(c) ==
    CASE c = "A" -> "a"
      [] c = "B" -> "b"
      [] OTHER -> c

\* A lower() that leaves the text as it is.
LowerStr_Identity(s) == s

\* str.lower()
LowerStr(s) == [i \in 1..Len(s) |-> Lower(s[i])]

\* Python's `t in s` on strings: literal substring containment.
In(t, s) ==
    \E i \in 1..(Len(s) - Len(t) + 1) :
        \A k \in 1..Len(t) : s[i + k - 1] = t[k]

\* Series.str.contains(pat, case=False, na=False) on one cell: pat is searched
\* as a regular expression, ignoring case; "." matches any character; a
\* missing cell gives False.
StrContains(s, pat) ==
    /\ s # NaN
    /\ \E i \in 1..(Len(s) - Len(pat) + 1) :
           \A k \in 1..Len(pat) :
               \/ pat[k] = "."
               \/ Lower(pat[k]) = Lower(s[i + k - 1])

\* name.replace("%20", " ")
RECURSIVE UrlDecode(_)
UrlDecode(s) ==
    IF s = <<>> THEN <<>>
    ELSE IF Len(s) >= 3 /\ s[1] = "%" /\ s[2] = "2" /\ s[3] = "0"
         THEN <<" ">> \o UrlDecode(SubSeq(s, 4, Len(s)))
         ELSE <<s[1]>> \o UrlDecode(Tail(s))

\* Python's seq[:n] for any integer n (a negative n drops the last -n items).
Slice(s, n) ==
    IF n >= 0
    THEN SubSeq(s, 1, IF n < Len(s) THEN n ELSE Len(s))
    ELSE SubSeq(s, 1, IF Len(s) + n > 0 THEN Len(s) + n ELSE 0)

\* DataFrame.head(n) for n >= 0
HeadRows(s, n) == SubSeq(s, 1, IF n < Len(s) THEN n ELSE Len(s))

RECURSIVE Flatten(_)
Flatten(ss) == IF ss = <<>> THEN <<>> ELSE Head(ss) \o Flatten(Tail(ss))

\* The sequences of length at most n over S.
SeqUpTo(S, n) == UNION {[1..k -> S] : k \in 0..n}

----------------------------------------------------------------------------
(* Data frames. *)

PlayerCols == {"player_id", "player_name"}
TournamentCols == {"tournament_id", "Tournament", "Surface", "Series"}
FileCols == {"p1_id", "p2_id", "winner_id", "tournament_id", "Date", "Round", "Score"}

\* A global name that load_data has not bound yet.
Unbound == [def |-> FALSE, by |-> 0, cols |-> {}, rows |-> <<>>]

Frame(i, cols, rows) == [def |-> TRUE, by |-> i, cols |-> cols, rows |-> rows]

\* One left row joined with the right rows of equal key, in right order; a
\* row of missing values when there is none (how="left").
JoinRow(l, R, lkey, rkey, nulls) ==
    LET hits == SelectSeq(R, LAMBDA r : r[rkey] = l[lkey])
    IN  IF hits = <<>>
        THEN <<l @@ nulls>>
        ELSE [i \in 1..Len(hits) |-> l @@ hits[i]]

\* left.merge(right, left_on=lkey, right_on=rkey, how="left") on the rows.
MergeLeft(L, R, lkey, rkey, nulls) ==
    Flatten([i \in 1..Len(L) |-> JoinRow(L[i], R, lkey, rkey, nulls)])

\* dim_players.rename(columns={"player_name": <name>, "player_id": <id>})
RenameP1(dp) == [k \in 1..Len(dp) |-> [p1_player_id |-> dp[k].player_id, p1_name |-> dp[k].player_name]]
RenameP2(dp) == [k \in 1..Len(dp) |-> [p2_player_id |-> dp[k].player_id, p2_name |-> dp[k].player_name]]
RenameW(dp) == [k \in 1..Len(dp) |-> [w_player_id |-> dp[k].player_id, winner_name |-> dp[k].player_name]]

\* dim_tournaments[["tournament_id", "Tournament", "Surface", "Series"]]
SelectT(dt) ==
    [k \in 1..Len(dt) |->
        [tournament_id |-> dt[k].tournament_id, Tournament |-> dt[k].Tournament,
         Surface |-> dt[k].Surface, Series |-> dt[k].Series]]

\* The right-hand columns of a left row without partner.
NullP1 == [p1_player_id |-> NaNId, p1_name |-> NaN]
NullP2 == [p2_player_id |-> NaNId, p2_name |-> NaN]
NullW == [w_player_id |-> NaNId, winner_name |-> NaN]
NullT == [Tournament |-> NaN, Surface |-> NaNStr, Series |-> NaNStr]

\* One left row joined as how="inner" would: dropped when no right row has its key.
JoinRowInner(l, R, lkey, rkey, nulls) ==
    LET hits == SelectSeq(R, LAMBDA r : r[rkey] = l[lkey])
    IN  [i \in 1..Len(hits) |-> l @@ hits[i]]

MergeInner(L, R, lkey, rkey, nulls) ==
    Flatten([i \in 1..Len(L) |-> JoinRowInner(L[i], R, lkey, rkey, nulls)])

\* The enriched view with inner joins in place of the left joins.
EnrichRows_Inner(fm, dp, dt) ==
    LET m1 == MergeInner(fm, RenameP1(dp), "p1_id", "p1_player_id", NullP1)
        m2 == MergeInner(m1, RenameP2(dp), "p2_id", "p2_player_id", NullP2)
        m3 == MergeInner(m2, RenameW(dp), "winner_id", "w_player_id", NullW)
    IN  MergeInner(m3, SelectT(dt), "tournament_id", "tournament_id", NullT)

\* The rows of the enriched view: the four chained left joins.
EnrichRows(fm, dp, dt) ==
    LET m1 == MergeLeft(fm, RenameP1(dp), "p1_id", "p1_player_id", NullP1)
        m2 == MergeLeft(m1, RenameP2(dp), "p2_id", "p2_player_id", NullP2)
        m3 == MergeLeft(m2, RenameW(dp), "winner_id", "w_player_id", NullW)
    IN  MergeLeft(m3, SelectT(dt), "tournament_id", "tournament_id", NullT)

EnrichedCols ==
    {"p1_player_id", "p1_name", "p2_player_id", "p2_name", "w_player_id",
     "winner_name", "Tournament", "Surface", "Series"}

\* merge raises KeyError when the left frame lacks a join column.
MergeRaises(fm) == ~({"p1_id", "p2_id", "winner_id", "tournament_id"} \subseteq fm.cols)

----------------------------------------------------------------------------
(* The pipeline output on disk. *)

\* A directory name is the list of its pieces between "=" signs (what
\* name.split("=") returns); a piece is numeric (int() accepts it) or not.
Word == [num |-> FALSE, val |-> 0]
Num(n) == [num |-> TRUE, val |-> n]

\* Path.is_dir(), Path.exists() and the content of data.parquet for one
\* (year directory, month directory) pair met by the two nested loops.
FileMissing == [state |-> "missing", rows |-> <<>>]
FileUnreadable == [state |-> "unreadable", rows |-> <<>>]
FileOk(rows) == [state |-> "ok", rows |-> rows]

Partition(yname, ydir, mname, mdir, file) ==
    [year_name |-> yname, year_is_dir |-> ydir,
     month_name |-> mname, month_is_dir |-> mdir, file |-> file]

\* A well-formed partition year=<y>/month=<m>/data.parquet.
GoodPartition(y, m, rows) ==
    Partition(<<Word, Num(y)>>, TRUE, <<Word, Num(m)>>, TRUE, FileOk(rows))

Disk(dp, dt, exists, parts) ==
    [dim_players |-> dp, dim_tournaments |-> dt, fact_dir |-> exists, parts |-> parts]

----------------------------------------------------------------------------
(* load_data, statement by statement. *)

Idle == [pc |-> "idle", idx |-> 0, fact_parts |-> <<>>, scanned |-> FALSE, err |-> "none"]

Goto(i, pc) == ld' = [ld EXCEPT ![i].pc = pc]

Raise(i, e) == ld' = [ld EXCEPT ![i].pc = "raised", ![i].err = e]

\* main: load_data() is called once before app.run.
MainLoad ==
    /\ started = 0
    /\ started' = 1
    /\ ld' = [ld EXCEPT ![1].pc = "L23"]
    /\ UNCHANGED <<disk, globals, serving, qs, resp, nreq>>

\* load_data run again while requests are served.
Reload ==
    /\ serving
    /\ started < MaxLoads
    /\ started' = started + 1
    /\ ld' = [ld EXCEPT ![started + 1].pc = "L23"]
    /\ UNCHANGED <<disk, globals, serving, qs, resp, nreq>>

\* line 23: dim_players = pd.read_parquet(...)
ReadPlayers(i) ==
    /\ ld[i].pc = "L23"
    /\ dim_players' = Frame(i, PlayerCols, disk.dim_players)
    /\ Goto(i, "L24")
    /\ UNCHANGED <<disk, dim_tournaments, fact_matches, fact_plus, started, serving, qs, resp, nreq>>

\* line 24: dim_tournaments = pd.read_parquet(...)
ReadTournaments(i) ==
    /\ ld[i].pc = "L24"
    /\ dim_tournaments' = Frame(i, TournamentCols, disk.dim_tournaments)
    /\ Goto(i, "L29")
    /\ UNCHANGED <<disk, dim_players, fact_matches, fact_plus, started, serving, qs, resp, nreq>>

\* lines 27-29: fact_parts = []; if fact_dir.exists()
CheckFactDir(i) ==
    /\ ld[i].pc = "L29"
    /\ IF disk.fact_dir
       THEN ld' = [ld EXCEPT ![i].pc = "L30", ![i].idx = 1, ![i].fact_parts = <<>>]
       ELSE ld' = [ld EXCEPT ![i].pc = "L44", ![i].fact_parts = <<>>, ![i].scanned = TRUE]
    /\ UNCHANGED <<disk, globals, started, serving, qs, resp, nreq>>

\* df["year"] = year; df["month"] = month
Stamp(rows, y, m) ==
    [k \in 1..Len(rows) |-> rows[k] @@ [year |-> y, month |-> m]]

\* lines 30-42: one pass of the loop body for the next (year, month) pair.
ScanPartition(i) ==
    /\ ld[i].pc = "L30"
    /\ ld[i].idx <= Len(disk.parts)
    /\ LET p == disk.parts[ld[i].idx]
           skip == ld' = [ld EXCEPT ![i].idx = @ + 1]
       IN  IF ~p.year_is_dir \/ ~p.month_is_dir \/ p.file.state = "missing"
           THEN skip
           ELSE IF p.file.state = "unreadable"
           THEN Raise(i, "ReadError")
           ELSE IF Len(p.year_name) < 2
           THEN Raise(i, "IndexError")
           ELSE IF ~p.year_name[2].num
           THEN Raise(i, "ValueError")
           ELSE IF Len(p.month_name) < 2
           THEN Raise(i, "IndexError")
           ELSE IF ~p.month_name[2].num
           THEN Raise(i, "ValueError")
           ELSE ld' = [ld EXCEPT
                   ![i].idx = @ + 1,
                   ![i].fact_parts =
                       Append(@, Stamp(p.file.rows, p.year_name[2].val, p.month_name[2].val))]
    /\ UNCHANGED <<disk, globals, started, serving, qs, resp, nreq>>

\* the loops end
ScanDone(i) ==
    /\ ld[i].pc = "L30"
    /\ ld[i].idx > Len(disk.parts)
    /\ ld' = [ld EXCEPT ![i].pc = "L44", ![i].scanned = TRUE]
    /\ UNCHANGED <<disk, globals, started, serving, qs, resp, nreq>>

\* line 44: fact_matches = pd.concat(fact_parts, ignore_index=True) if
\* fact_parts else pd.DataFrame()
Concat(i) ==
    /\ ld[i].pc = "L44"
    /\ fact_matches' =
           IF ld[i].fact_parts # <<>>
           THEN Frame(i, FileCols \cup {"year", "month"}, Flatten(ld[i].fact_parts))
           ELSE Frame(i, {}, <<>>)
    /\ Goto(i, "L48")
    /\ UNCHANGED <<disk, dim_players, dim_tournaments, fact_plus, started, serving, qs, resp, nreq>>

\* lines 48-60: fact_plus = fact_matches.merge(...).merge(...).merge(...).merge(...)
Enrich(i) ==
    /\ ld[i].pc = "L48"
    /\ IF MergeRaises(fact_matches)
       THEN /\ Raise(i, "KeyError")
            /\ UNCHANGED fact_plus
       ELSE /\ fact_plus' =
                   Frame(i, fact_matches.cols \cup EnrichedCols,
                         EnrichRows(fact_matches.rows, dim_players.rows, dim_tournaments.rows))
            /\ Goto(i, "done")
    /\ UNCHANGED <<disk, dim_players, dim_tournaments, fact_matches, started, serving, qs, resp, nreq>>

LoadStep(i) ==
    \/ ReadPlayers(i)
    \/ ReadTournaments(i)
    \/ CheckFactDir(i)
    \/ ScanPartition(i)
    \/ ScanDone(i)
    \/ Concat(i)
    \/ Enrich(i)

\* line 274: app.run, reached only when main's load_data returned.
Serve ==
    /\ ~serving
    /\ ld[1].pc = "done"
    /\ serving' = TRUE
    /\ UNCHANGED <<disk, globals, ld, started, qs, resp, nreq>>

NoRequest == [pc |-> "idle", name |-> <<>>, player_name |-> <<>>, read |-> {}]
NoResponse == [op |-> "none", status |-> 0]

\* The state once the module is imported, before main runs, for a given disk.
Start(d) ==
    /\ disk = d
    /\ dim_players = Unbound
    /\ dim_tournaments = Unbound
    /\ fact_matches = Unbound
    /\ fact_plus = Unbound
    /\ ld = [i \in Loads |-> Idle]
    /\ started = 0
    /\ serving = FALSE
    /\ qs = NoRequest
    /\ resp = NoResponse
    /\ nreq = 0

----------------------------------------------------------------------------
(* The request handlers. *)

DefaultLimit == 50   \* request.args.get("limit", 50)
RecentLimit == 10    \* head(10)
TicksPerDay == 2     \* timestamps per calendar day in the Date column

FinalRound == "The Final"

\* str(Date)[:10]: the calendar day of a timestamp.
Day(date) == date \div TicksPerDay

\* The last row, where iloc[0] takes the first.
FirstRow_Last(df) == df[Len(df)]

\* df.iloc[0]
FirstRow(df) == df[1]

\* The orders of the index set S.
Perms(S) ==
    {p \in [1..Cardinality(S) -> S] : \A a, b \in 1..Cardinality(S) : p[a] = p[b] => a = b}

\* The same sort with ascending=True.
SortDescOrders_Ascending(rows, S) ==
    LET date == [i \in S |-> rows[i].Date]
        orders[T \in SUBSET S] ==
            IF T = {} THEN {<<>>}
            ELSE LET low == CHOOSE d \in {date[i] : i \in T} : \A i \in T : date[i] >= d
                     G == {i \in T : date[i] = low}
                 IN  {p \o r : p \in Perms(G), r \in orders[T \ G]}
    IN  orders[S]

\* sort_values("Date", ascending=False) on the rows with indices S: the rows
\* by falling Date; the order among rows of equal Date is not specified by
\* the default sort (quicksort), so every order of a group of equal dates is
\* possible.  The result is the set of the possible index orders.
SortDescOrders(rows, S) ==
    LET date == [i \in S |-> rows[i].Date]
        orders[T \in SUBSET S] ==
            IF T = {} THEN {<<>>}
            ELSE LET top == CHOOSE d \in {date[i] : i \in T} : \A i \in T : date[i] <= d
                     G == {i \in T : date[i] = top}
                 IN  {p \o r : p \in Perms(G), r \in orders[T \ G]}
    IN  orders[S]

\* round(x / n * 100, 1), in tenths of a percent (exact below 16 rows, where
\* no quotient falls on a half).
WinRate(x, n) == (2000 * x + n) \div (2 * n)

CanServe == serving /\ qs.pc = "idle" /\ nreq < MaxRequests

Answer(r) ==
    /\ resp' = r
    /\ nreq' = nreq + 1

\* lines 106-121: list_players with ?q=<q>&limit=<limit>
ListPlayers(q, limit) ==
    /\ CanServe
    /\ LET search == LowerStr(q)
           names == [k \in 1..Len(dim_players.rows) |-> dim_players.rows[k].player_name]
           players == IF search # <<>>
                      THEN SelectSeq(names, LAMBDA p : In(search, LowerStr(p)))
                      ELSE names
       IN  Answer([op |-> "list_players", status |-> 200,
                   q |-> q, limit |-> limit,
                   count |-> Len(Slice(players, limit)),
                   total |-> Len(players),
                   players |-> Slice(players, limit)])
    /\ UNCHANGED <<disk, globals, ld, started, serving, qs>>

\* lines 125-137: player_stats(name) up to the choice of the player
PlayerStatsResolve(name) ==
    /\ CanServe
    /\ LET player_name == UrlDecode(name)
           matches == SelectSeq(dim_players.rows,
                                LAMBDA r : StrContains(r.player_name, player_name))
       IN  IF Len(matches) = 0
           THEN /\ Answer([op |-> "player_stats", status |-> 404, name |-> name,
                           error |-> "Player not found", read |-> {dim_players.by}])
                /\ UNCHANGED qs
           ELSE /\ qs' = [pc |-> "L140", name |-> name,
                          player_name |-> FirstRow(matches).player_name,
                          read |-> {dim_players.by}]
                /\ UNCHANGED <<resp, nreq>>
    /\ UNCHANGED <<disk, globals, ld, started, serving>>

Surfaces == {"Hard", "Clay", "Grass"}

\* surface.lower()
SurfaceKey(surface) ==
    CASE surface = "Hard" -> "hard"
      [] surface = "Clay" -> "clay"
      [] surface = "Grass" -> "grass"

SurfaceStats(all, surface) ==
    LET s_matches == SelectSeq(all, LAMBDA r : r.Surface = surface)
        s_wins == Len(SelectSeq(s_matches, LAMBDA r : r.is_win))
    IN  [matches |-> Len(s_matches), wins |-> s_wins,
         losses |-> Len(s_matches) - s_wins,
         win_rate |-> IF Len(s_matches) > 0 THEN WinRate(s_wins, Len(s_matches)) ELSE 0]

\* lines 139-177: player_stats, the aggregation over fact_plus
PlayerStatsAggregate ==
    /\ qs.pc = "L140"
    /\ LET player_name == qs.player_name
           p1_matches == SelectSeq(fact_plus.rows, LAMBDA r : r.p1_name = player_name)
           p1_flagged == [k \in 1..Len(p1_matches) |->
                             p1_matches[k] @@ [is_win |-> p1_matches[k].winner_id = p1_matches[k].p1_id]]
           p2_matches == SelectSeq(fact_plus.rows, LAMBDA r : r.p2_name = player_name)
           p2_flagged == [k \in 1..Len(p2_matches) |->
                             p2_matches[k] @@ [is_win |-> p2_matches[k].winner_id = p2_matches[k].p2_id]]
           all_matches == p1_flagged \o p2_flagged
           wins == Len(SelectSeq(all_matches, LAMBDA r : r.is_win))
           read == qs.read \cup {fact_plus.by}
       IN  IF Len(all_matches) = 0
           THEN Answer([op |-> "player_stats", status |-> 404, name |-> qs.name,
                        error |-> "No matches found for player", read |-> read])
           ELSE Answer([op |-> "player_stats", status |-> 200, name |-> qs.name,
                        player |-> player_name,
                        total_matches |-> Len(all_matches),
                        wins |-> wins,
                        losses |-> Len(all_matches) - wins,
                        win_rate |-> WinRate(wins, Len(all_matches)),
                        by_surface |->
                            [k \in {SurfaceKey(x) : x \in {y \in Surfaces :
                                       SurfaceStats(all_matches, y).matches > 0}}
                                |-> SurfaceStats(all_matches,
                                                 CHOOSE x \in Surfaces : SurfaceKey(x) = k)],
                        read |-> read])
    /\ qs' = NoRequest
    /\ UNCHANGED <<disk, globals, ld, started, serving>>

\* The rows head_to_head selects, as indices into fact_plus.
H2HRows(rows, p1, p2) ==
    {k \in 1..Len(rows) :
        \/ StrContains(rows[k].p1_name, p1) /\ StrContains(rows[k].p2_name, p2)
        \/ StrContains(rows[k].p1_name, p2) /\ StrContains(rows[k].p2_name, p1)}

\* lines 181-219: head_to_head(player1, player2)
HeadToHead(player1, player2) ==
    /\ CanServe
    /\ LET p1 == UrlDecode(player1)
           p2 == UrlDecode(player2)
           rows == fact_plus.rows
       IN  \E order \in SortDescOrders(rows, H2HRows(rows, p1, p2)) :
               LET h2h == [k \in 1..Len(order) |-> rows[order[k]]]
               IN  IF Len(h2h) = 0
                   THEN Answer([op |-> "head_to_head", status |-> 404,
                                player1 |-> player1, player2 |-> player2,
                                error |-> "No head-to-head matches found"])
                   ELSE LET actual_p1 == FirstRow(h2h).p1_name
                            actual_p2 == FirstRow(h2h).p2_name
                            recent == HeadRows(h2h, RecentLimit)
                        IN  Answer([op |-> "head_to_head", status |-> 200,
                                    player1 |-> player1, player2 |-> player2,
                                    player_1 |-> actual_p1,
                                    player_2 |-> actual_p2,
                                    p1_wins |-> Len(SelectSeq(h2h, LAMBDA r : r.winner_name = actual_p1)),
                                    p2_wins |-> Len(SelectSeq(h2h, LAMBDA r : r.winner_name = actual_p2)),
                                    total |-> Len(h2h),
                                    recent_matches |->
                                        [k \in 1..Len(recent) |->
                                            [Date |-> Day(recent[k].Date),
                                             Tournament |-> recent[k].Tournament,
                                             Round |-> recent[k].Round,
                                             Surface |-> recent[k].Surface,
                                             winner_name |-> recent[k].winner_name,
                                             Score |-> recent[k].Score]]])
    /\ UNCHANGED <<disk, globals, ld, started, serving, qs>>

\* The rows tournament_details selects, in table order.
TournamentRows(rows, tournament_name) ==
    SelectSeq(rows, LAMBDA r : StrContains(r.Tournament, tournament_name))

FinalsOf(matches) == {k \in 1..Len(matches) : matches[k].Round = FinalRound}

\* lines 241-264: tournament_details(name)
TournamentDetails(name) ==
    /\ CanServe
    /\ LET tournament_name == UrlDecode(name)
           matches == TournamentRows(fact_plus.rows, tournament_name)
       IN  IF Len(matches) = 0
           THEN Answer([op |-> "tournament_details", status |-> 404, name |-> name,
                        error |-> "Tournament not found"])
           ELSE \E order \in SortDescOrders(matches, FinalsOf(matches)) :
                   LET finals == [k \in 1..Len(order) |-> matches[order[k]]]
                       recent_winners == HeadRows(finals, RecentLimit)
                   IN  Answer([op |-> "tournament_details", status |-> 200, name |-> name,
                               tournament |-> FirstRow(matches).Tournament,
                               surface |-> FirstRow(matches).Surface,
                               series |-> FirstRow(matches).Series,
                               total_matches |-> Len(matches),
                               picked |-> HeadRows(order, RecentLimit),
                               recent_champions |->
                                   [k \in 1..Len(recent_winners) |->
                                       [year |-> Day(recent_winners[k].Date),
                                        champion |-> recent_winners[k].winner_name,
                                        score |-> recent_winners[k].Score]]])
    /\ UNCHANGED <<disk, globals, ld, started, serving, qs>>

\* The first load and the start of the server, as main runs them.
Boot == MainLoad \/ LoadStep(1) \/ Serve

----------------------------------------------------------------------------
(* The loader alone, over every small pipeline output. *)

MaxDimRows == 2      \* rows of a dimension table
MaxParts == 2        \* (year, month) directory pairs under fact_matches
MaxFileRows == 1     \* rows of one data.parquet

MatchRow(p1, p2, w, t, date, round) ==
    [p1_id |-> p1, p2_id |-> p2, winner_id |-> w, tournament_id |-> t,
     Date |-> date, Round |-> round, Score |-> "6-4"]

PlayerRow(id, name) == [player_id |-> id, player_name |-> name]

TournamentRow(id, name, surface) ==
    [tournament_id |-> id, Tournament |-> name, Surface |-> surface, Series |-> "ATP250"]

LoadPlayerRows == {PlayerRow(id, <<"a">>) : id \in {1, 2}}
LoadTournamentRow == TournamentRow(1, <<"b">>, "Clay")
LoadTournaments == {<<>>, <<LoadTournamentRow>>, <<LoadTournamentRow, LoadTournamentRow>>}
LoadMatchRows == {MatchRow(p1, p2, p1, 1, 1, "The Final") : p1 \in {1, 2}, p2 \in {1, 2}}

\* What the loader can meet under fact_matches: well-formed partitions, and
\* entries that are not a directory, lack data.parquet, hold an unreadable
\* data.parquet or have a name that is not <word>=<number>.
LoadPartitions ==
    {GoodPartition(2020, m, rows) : m \in {1, 2}, rows \in SeqUpTo(LoadMatchRows, MaxFileRows)}
    \cup {Partition(<<Word, Num(2020)>>, FALSE, <<Word, Num(1)>>, TRUE, FileMissing),
          Partition(<<Word, Num(2020)>>, TRUE, <<Word, Num(1)>>, FALSE, FileMissing),
          Partition(<<Word, Num(2020)>>, TRUE, <<Word, Num(1)>>, TRUE, FileMissing),
          Partition(<<Word, Num(2020)>>, TRUE, <<Word, Num(1)>>, TRUE, FileUnreadable),
          Partition(<<Num(2020)>>, TRUE, <<Word, Num(1)>>, TRUE, FileOk(<<>>)),
          Partition(<<Word, Word>>, TRUE, <<Word, Num(1)>>, TRUE, FileOk(<<>>)),
          Partition(<<Word, Num(2020)>>, TRUE, <<Num(1)>>, TRUE, FileOk(<<>>)),
          Partition(<<Word, Num(2020)>>, TRUE, <<Word, Word>>, TRUE, FileOk(<<>>))}

LoadDisks ==
    {Disk(dp, dt, TRUE, parts) :
        dp \in SeqUpTo(LoadPlayerRows, MaxDimRows),
        dt \in LoadTournaments,
        parts \in SeqUpTo(LoadPartitions, MaxParts)}
    \cup {Disk(dp, dt, FALSE, <<>>) :
        dp \in SeqUpTo(LoadPlayerRows, MaxDimRows),
        dt \in LoadTournaments}

InitLoad == \E d \in LoadDisks : Start(d)

NextLoad == MainLoad \/ \E i \in Loads : LoadStep(i)

SpecLoad == InitLoad /\ [][NextLoad]_vars

\* The pipeline outputs whose partitions are all well formed, each holding at
\* most one match.
EnrichPartitions ==
    {GoodPartition(2020, 1, <<>>)} \cup {GoodPartition(2020, 1, <<r>>) : r \in LoadMatchRows}

EnrichDisks ==
    {Disk(dp, dt, TRUE, parts) :
        dp \in SeqUpTo(LoadPlayerRows, MaxDimRows),
        dt \in LoadTournaments,
        parts \in SeqUpTo(EnrichPartitions, MaxParts)}

InitEnrich == \E d \in EnrichDisks : Start(d)

SpecEnrich == InitEnrich /\ [][NextLoad]_vars

\* A partition the loader is meant to read: both directories exist and are
\* named year=<Y> and month=<M>, and data.parquet can be read.
Readable(p) ==
    /\ p.year_is_dir /\ p.month_is_dir /\ p.file.state = "ok"
    /\ Len(p.year_name) >= 2 /\ p.year_name[2].num
    /\ Len(p.month_name) >= 2 /\ p.month_name[2].num

ReadableRows(d) ==
    Flatten([k \in 1..Len(d.parts) |->
        IF Readable(d.parts[k])
        THEN Stamp(d.parts[k].file.rows, d.parts[k].year_name[2].val, d.parts[k].month_name[2].val)
        ELSE <<>>])

UniqueKey(rows, key) ==
    \A a, b \in 1..Len(rows) : rows[a][key] = rows[b][key] => a = b

\* The columns of the fact table in an enriched row.
FactPart(r, fm) == [c \in DOMAIN fm |-> r[c]]

\* C2 (as stated): whenever load_data has built the enriched table, it has
\* exactly as many rows as the fact table, whatever the dimension tables hold.
C2_RowCountAnyDims ==
    ld[1].pc = "done" => Len(fact_plus.rows) = Len(fact_matches.rows)

\* C2 (amended): when player_id is unique in dim_players and tournament_id is
\* unique in dim_tournaments, the enriched table built by load_data has exactly
\* one row per fact row, in the same order and with the fact columns unchanged,
\* also for the rows whose ids have no dimension row.
C2_RowCountUniqueDims ==
    (/\ ld[1].pc = "done"
     /\ UniqueKey(dim_players.rows, "player_id")
     /\ UniqueKey(dim_tournaments.rows, "tournament_id"))
    => /\ Len(fact_plus.rows) = Len(fact_matches.rows)
       /\ \A k \in 1..Len(fact_matches.rows) :
              FactPart(fact_plus.rows[k], fact_matches.rows[k]) = fact_matches.rows[k]

\* C2 witness: a finished load of two fact rows, one of which has a player id
\* and a tournament id without dimension row.
C2_Witness ==
    /\ ld[1].pc = "done"
    /\ UniqueKey(dim_players.rows, "player_id")
    /\ UniqueKey(dim_tournaments.rows, "tournament_id")
    /\ Len(fact_matches.rows) = 2
    /\ Len(fact_plus.rows) = 2
    /\ fact_plus.rows[1].p1_name # NaN
    /\ fact_plus.rows[2].p1_name = NaN
    /\ fact_plus.rows[2].Tournament = NaN

\* C3: a load that found no fact partition completes and leaves a zero-row
\* snapshot.
C3_EmptyLoadCompletes ==
    \A i \in Loads :
        (ld[i].scanned /\ ld[i].fact_parts = <<>> /\ ld[i].pc \in {"done", "raised"})
        => /\ ld[i].pc = "done"
           /\ fact_plus.def
           /\ fact_plus.rows = <<>>

\* C4: no partition makes load_data raise, and a finished load holds the
\* stamped rows of every readable partition.
C4_BadPartitionSkipped ==
    \A i \in Loads :
        /\ ld[i].err \notin {"ReadError", "IndexError", "ValueError"}
        /\ ld[i].pc = "done" => fact_matches.rows = ReadableRows(disk)

----------------------------------------------------------------------------
(* Requests against the snapshot of the first load. *)

Limits == (-MaxLimit..MaxLimit) \cup {DefaultLimit}

\* A player dimension with the given names and the ids 1, 2, ...
PlayerTable(names) == [k \in 1..Len(names) |-> PlayerRow(k, names[k])]

Tournaments ==
    <<TournamentRow(1, <<"a", "b">>, "Hard"), TournamentRow(2, <<"b">>, "Clay")>>

\* One well-formed partition holding the given rows.
OneFile(dp, dt, rows) == Disk(dp, dt, TRUE, <<GoodPartition(2020, 1, rows)>>)

\* name contains q, ignoring case, as plain text.
ContainsCI(name, q) ==
    /\ name # NaN
    /\ \E i \in 1..(Len(name) - Len(q) + 1) :
           \A k \in 1..Len(q) : Lower(name[i + k - 1]) = Lower(q[k])

Min(a, b) == IF a <= b THEN a ELSE b
Max0(a) == IF a >= 0 THEN a ELSE 0

(* list_players *)

ListNames == {<<"A", "b">>, <<"a">>, <<"b", "a">>, <<"B">>}

\* The searches: none, and texts that differ from the names in case.
ListQueries == {<<>>, <<"a">>, <<"B">>, <<"a", "B">>, <<"b", "a">>, <<".">>}

MaxPlayers == 3      \* rows of dim_players when it is listed

ListDisks ==
    {OneFile(PlayerTable(names), Tournaments, <<>>) : names \in SeqUpTo(ListNames, MaxPlayers)}

InitList == \E d \in ListDisks : Start(d)

NextList ==
    \/ Boot
    \/ \E q \in ListQueries, limit \in Limits : ListPlayers(q, limit)

SpecList == InitList /\ [][NextList]_vars

\* The names of dim_players that contain q, in table order.
NamesWith(q) ==
    SelectSeq([k \in 1..Len(dim_players.rows) |-> dim_players.rows[k].player_name],
              LAMBDA n : ContainsCI(n, q))

\* C8 (as stated): for every integer limit, total is the number of names
\* containing the query, players is the first limit of them and
\* count = min(limit, total), so count <= limit and count <= total.
C8_CountIsMinAnyLimit ==
    resp.op = "list_players" =>
        /\ resp.total = Len(NamesWith(resp.q))
        /\ resp.count = Min(resp.limit, resp.total)
        /\ resp.count <= resp.limit
        /\ resp.count <= resp.total
        /\ resp.count = Len(resp.players)

\* C8 (amended): total is the number of names containing the query, ignoring
\* case; count is the length of players and at most total; for a limit >= 0,
\* players is the first min(limit, total) of those names in table order; for a
\* limit < 0, players is those names without the last -limit of them.
C8_CountIsMin ==
    resp.op = "list_players" =>
        LET found == NamesWith(resp.q)
        IN  /\ resp.total = Len(found)
            /\ resp.count = Len(resp.players)
            /\ resp.count <= resp.total
            /\ resp.limit >= 0 =>
                   /\ resp.count = Min(resp.limit, resp.total)
                   /\ resp.players = SubSeq(found, 1, resp.count)
            /\ resp.limit < 0 =>
                   /\ resp.count = Max0(resp.total + resp.limit)
                   /\ resp.players = SubSeq(found, 1, resp.count)

\* C8 witness: a search that leaves out a name and whose result is cut by limit.
C8_Witness ==
    /\ resp.op = "list_players"
    /\ resp.q # <<>>
    /\ resp.limit > 0
    /\ resp.total > resp.limit
    /\ resp.total < Len(dim_players.rows)
    /\ resp.count = resp.limit

(* player_stats *)

StatsNames == {<<"A", "b">>, <<"b">>, <<"a", " ", "b">>}

\* The path parameters: texts that differ from the names in case, a pattern
\* and a text with an escaped blank.
StatsQueries ==
    {<<"a">>, <<"b">>, <<"A", "B">>, <<"a", "a">>, <<".">>, <<"a", "%", "2", "0", "b">>}

\* Matches between two of the players 1..3 (3 has no dimension row when the
\* dimension has two), won by one of the two; the tournament id is the
\* first player's id.
StatsMatchRows ==
    {MatchRow(1, 2, 1, 1, 1, FinalRound), MatchRow(1, 2, 2, 1, 1, FinalRound),
     MatchRow(2, 3, 2, 2, 1, FinalRound), MatchRow(1, 3, 3, 1, 1, FinalRound)}

MaxMatches == 2      \* rows of the fact table

StatsDisks ==
    {OneFile(PlayerTable(names), Tournaments, rows) :
        names \in SeqUpTo(StatsNames, MaxDimRows),
        rows \in SeqUpTo(StatsMatchRows, MaxMatches)}

InitStats == \E d \in StatsDisks : Start(d)

NextStats ==
    \/ Boot
    \/ \E name \in StatsQueries : PlayerStatsResolve(name)
    \/ PlayerStatsAggregate

SpecStats == InitStats /\ [][NextStats]_vars

\* The rows of dim_players whose name contains the decoded query as text.
PlayersWith(name) ==
    SelectSeq(dim_players.rows, LAMBDA r : ContainsCI(r.player_name, UrlDecode(name)))

\* The enriched matches player id plays in, and those id won.
MatchesOf(id) == SelectSeq(fact_plus.rows, LAMBDA r : r.p1_id = id \/ r.p2_id = id)
WinsOf(id) == SelectSeq(MatchesOf(id), LAMBDA r : r.winner_id = id)

\* C5: a successful player_stats reports, for the resolved player P (the first
\* row of dim_players matching the query), the number of enriched matches
\* with P's id as p1 or p2, the wins as those with winner_id = P's id, and
\* wins + losses = total_matches.
C5_StatsByPlayerId ==
    (resp.op = "player_stats" /\ resp.status = 200) =>
        LET P == SelectSeq(dim_players.rows,
                           LAMBDA r : StrContains(r.player_name, UrlDecode(resp.name)))[1]
        IN  /\ resp.total_matches = Len(MatchesOf(P.player_id))
            /\ resp.wins = Len(WinsOf(P.player_id))
            /\ resp.wins + resp.losses = resp.total_matches

PatternIn(name, q) ==
    /\ name # NaN
    /\ \E i \in 1..(Len(name) - Len(q) + 1) :
           \A k \in 1..Len(q) : q[k] # "." => Lower(name[i + k - 1]) = Lower(q[k])

\* The rows of dim_players whose name matches the decoded query as a pattern.
PlayersMatching(name) ==
    SelectSeq(dim_players.rows, LAMBDA r : PatternIn(r.player_name, UrlDecode(name)))

HasMatches(n) == \E k \in 1..Len(fact_plus.rows) :
                    fact_plus.rows[k].p1_name = n \/ fact_plus.rows[k].p2_name = n

H2HNames == {<<"A", "b">>, <<"b">>}

H2HQueries == {<<"a">>, <<"b">>, <<"A", "B">>, <<".">>}

H2HMatchRows ==
    {r \in {MatchRow(p1, p2, w, 1, d, FinalRound) :
                p1 \in 1..2, p2 \in 1..2, w \in 1..2, d \in 1..2} :
        r.p1_id # r.p2_id}

H2HDisks ==
    {OneFile(PlayerTable(names), Tournaments, rows) :
        names \in SeqUpTo(H2HNames, MaxDimRows),
        rows \in SeqUpTo(H2HMatchRows, MaxMatches)}

InitH2H == \E d \in H2HDisks : Start(d)

NextH2H ==
    \/ Boot
    \/ \E a \in H2HQueries, b \in H2HQueries : HeadToHead(a, b)

SpecH2H == InitH2H /\ [][NextH2H]_vars

\* C6: a successful head_to_head reports p1_wins + p2_wins <= total.
C6_WinsWithinTotal ==
    (resp.op = "head_to_head" /\ resp.status = 200) =>
        resp.p1_wins + resp.p2_wins <= resp.total

(* tournament_details *)

MaxExtraFinals == 2  \* finals beyond the ten that are listed

TournQueries == {<<"a">>, <<"b">>, <<"A", "B">>, <<".">>, <<"b", "b">>}

TournMatchRows ==
    {MatchRow(1, 2, w, t, d, round) :
        w \in {1}, t \in 1..2, d \in 1..3, round \in {FinalRound, "Semifinals"}}

\* A season of tournament 1: one semifinal, then n finals in the order they
\* were played, one timestamp apart, the final number t (if any) played at
\* the same timestamp as the next one.
Season(n, t) ==
    <<MatchRow(1, 2, 2, 1, n, "Semifinals")>> \o
    [k \in 1..n |-> MatchRow(1, 2, 1 + (k % 2), 1, IF k = t THEN k + 1 ELSE k, FinalRound)]

TournDisks ==
    {OneFile(PlayerTable(<<<<"A", "b">>, <<"b">>>>), Tournaments, rows) :
        rows \in SeqUpTo(TournMatchRows, MaxMatches)}
    \cup UNION {{OneFile(PlayerTable(<<<<"A", "b">>, <<"b">>>>), Tournaments, Season(n, t)) :
                    t \in {0, 1, n - 1}} :
                n \in (RecentLimit + 1)..(RecentLimit + MaxExtraFinals)}

InitTourn == \E d \in TournDisks : Start(d)

NextTourn ==
    \/ Boot
    \/ \E name \in TournQueries : TournamentDetails(name)

SpecTourn == InitTourn /\ [][NextTourn]_vars

\* The rows the answered request matched, the listed rows among them (by
\* index, in listing order), and the dates of the listed rows.
MatchedRows == TournamentRows(fact_plus.rows, UrlDecode(resp.name))
Listed == resp.picked
ListedFinal(k) == MatchedRows[Listed[k]]

\* What C7 states besides the order of the list: at most ten entries, one per
\* listed row, every listed row a final, and no omitted final more recent
\* than a listed one.
ChampionsAreRecentFinals ==
    /\ Len(resp.recent_champions) <= 10
    /\ Len(resp.recent_champions) = Len(Listed)
    /\ Len(Listed) = Min(10, Cardinality(FinalsOf(MatchedRows)))
    /\ \A a, b \in 1..Len(Listed) : Listed[a] = Listed[b] => a = b
    /\ \A k \in 1..Len(Listed) :
           /\ Listed[k] \in FinalsOf(MatchedRows)
           /\ ListedFinal(k).Round = "The Final"
           /\ resp.recent_champions[k] =
                  [year |-> Day(ListedFinal(k).Date),
                   champion |-> ListedFinal(k).winner_name,
                   score |-> ListedFinal(k).Score]
    /\ \A j \in FinalsOf(MatchedRows) :
           (\A k \in 1..Len(Listed) : Listed[k] # j)
           => \A k \in 1..Len(Listed) : MatchedRows[j].Date <= ListedFinal(k).Date

\* C7 (as stated): recent_champions holds at most ten finals, the most recent
\* ones, and every entry's date is later than the date of the entry after it.
C7_ChampionsStrictlyDescending ==
    (resp.op = "tournament_details" /\ resp.status = 200) =>
        /\ ChampionsAreRecentFinals
        /\ \A k \in 1..(Len(resp.recent_champions) - 1) :
               resp.recent_champions[k].year > resp.recent_champions[k + 1].year

\* C7 (amended): recent_champions holds at most ten finals, the most recent
\* ones, and no entry's date is earlier than the date of the entry after it
\* (finals of equal date follow each other in either order).
C7_ChampionsDescending ==
    (resp.op = "tournament_details" /\ resp.status = 200) =>
        /\ ChampionsAreRecentFinals
        /\ \A k \in 1..(Len(Listed) - 1) :
               /\ ListedFinal(k).Date >= ListedFinal(k + 1).Date
               /\ resp.recent_champions[k].year >= resp.recent_champions[k + 1].year

\* C7 witness: more than ten finals matched, ten listed, two of them of the
\* same day and two of different days.
C7_Witness ==
    /\ resp.op = "tournament_details"
    /\ resp.status = 200
    /\ Cardinality(FinalsOf(MatchedRows)) > 10
    /\ Len(resp.recent_champions) = 10
    /\ resp.total_matches > Cardinality(FinalsOf(MatchedRows))
    /\ \E k \in 1..9 : resp.recent_champions[k].year = resp.recent_champions[k + 1].year
    /\ \E k \in 1..9 : resp.recent_champions[k].year > resp.recent_champions[k + 1].year

----------------------------------------------------------------------------
(* load_data run again while requests are served. *)

ReloadOld ==
    OneFile(PlayerTable(<<<<"A", "b">>, <<"b">>>>), Tournaments,
            <<MatchRow(1, 2, 1, 1, 1, FinalRound)>>)

ReloadNew ==
    OneFile(PlayerTable(<<<<"a">>, <<"b">>>>), Tournaments,
            <<MatchRow(1, 2, 1, 1, 1, FinalRound), MatchRow(2, 1, 2, 2, 3, FinalRound)>>)

\* The pipeline writes a new output.
DiskChange ==
    /\ disk = ReloadOld
    /\ disk' = ReloadNew
    /\ UNCHANGED <<globals, ld, started, serving, qs, resp, nreq>>

InitReload == Start(ReloadOld)

NextReload ==
    \/ MainLoad
    \/ Serve
    \/ DiskChange
    \/ Reload
    \/ \E i \in Loads : LoadStep(i)
    \/ \E name \in {<<"a">>, <<"b">>} : PlayerStatsResolve(name)
    \/ PlayerStatsAggregate

SpecReload == InitReload /\ [][NextReload]_vars

Running(i) == ld[i].pc \notin {"idle", "done", "raised"}

\* C1: the tables a request read were all assigned by the same load_data
\* invocation, that is, belong to one snapshot.
C1_QueryReadsOneSnapshot ==
    resp.op = "player_stats" => Cardinality(resp.read) <= 1

\* C9: at most one load_data invocation is running at any time, and once all
\* started invocations have ended the four tables were assigned by the same
\* one.
C9_ReloadsSerialized ==
    /\ Cardinality({i \in Loads : Running(i)}) <= 1
    /\ (serving /\ \A i \in Loads : ~Running(i))
       => /\ dim_tournaments.by = dim_players.by
          /\ fact_matches.by = dim_players.by
          /\ fact_plus.by = dim_players.by

====
